---- MODULE Spec2Model ----
(***************************************************************************)
(* A model of proto's pin command (crates/cli/src/commands/pin.rs), of the *)
(* plugin listing (commands/plugin/list.rs) and of the plugin test wrapper *)
(* (crates/pdk-test-utils/src/wrapper.rs).                                 *)
(*                                                                         *)
(* A command is a process: each of its steps is one operation it awaits    *)
(* or one access to a file, and other processes run between its steps.     *)
(*                                                                         *)
(* The tool loader, the version resolver, the config store, the manifest,  *)
(* symlink_bins and the virtual path translator live in crates that are    *)
(* not part of the sources at hand; they follow sections 3, 4.1, 4.4, 4.5, *)
(* 4.6, 5 and 7 of the specification.                                      *)
(***************************************************************************)
EXTENDS Integers, Sequences, FiniteSets, TLC

VARIABLES
    cfg,        \* the config documents: scope -> tool id -> pinned spec
    symlinks,   \* tool id -> the version its bin symlinks point at
    installed,  \* tool id -> the manifest's installed versions, as installed
    remote,     \* the versions the plugin reports as available remotely
    call,       \* process -> the frame of the command it runs
    writer,     \* scope -> the process whose write the document is, if any
    cfg0,       \* the config documents before any process started
    wcall,      \* the record of the last call made through the test wrapper
    meta,       \* tool id -> version -> the manifest's metadata of the version
    used,       \* tool id -> version -> the version's last-used marker file
    lcall,      \* the frame of the plugin list command
    listing     \* what the plugin list command has printed

pinVars == <<cfg, symlinks, installed, remote, call, writer, cfg0>>

wrapVars == <<wcall>>

listVars == <<meta, used, lcall, listing>>

vars == <<pinVars, wrapVars, listVars>>

----------------------------------------------------------------------------
(* Bounds *)

\* the longest list of installed versions a manifest starts with
MaxInstalled == 2

----------------------------------------------------------------------------
(* Value domains *)

\* the tools whose plugins are configured
Ids == {"bun", "node"}

\* the ids a command can be given: the tools, and one that is no tool
ArgIds == Ids \cup {"deno"}

Scopes == {"global", "local"}

\* concrete versions <<major, minor, patch>>
Versions == {<<18, 4, 0>>, <<18, 19, 0>>, <<20, 1, 0>>}

\* semver's total order on concrete versions
VersionLess(a, b) ==
    \/ a[1] < b[1]
    \/ a[1] = b[1] /\ a[2] < b[2]
    \/ a[1] = b[1] /\ a[2] = b[2] /\ a[3] < b[3]

\* UnresolvedVersionSpec: what a user types and what a pin holds
Latest == [kind |-> "Latest"]

Alias(n) == [kind |-> "Alias", name |-> n]

Req(m) == [kind |-> "Req", major |-> m]

UVersion(v) == [kind |-> "Version", version |-> v]

\* VersionSpec: what resolution produces
RVersion(v) == [kind |-> "Resolved", version |-> v]

\* no entry for a tool in a config document, no symlink for a tool
NoPin == [kind |-> "NoPin"]

NoLink == [kind |-> "NoLink"]

\* VersionSpec::to_unresolved_spec
to_unresolved_spec(r) == UVersion(r.version)

\* the specs the pin command is called with, per tool
PinSpecs(id) ==
    IF id = "node"
    THEN {Latest, Req(18), Alias("lts"), Alias("x"), UVersion(<<20, 1, 0>>)}
    ELSE {Req(18)}

\* the tool's alias map: a chain that ends in a range, and a cycle
AliasNames == {"lts", "x", "y"}

AliasMap == [n \in AliasNames |->
                CASE n = "lts" -> Req(18)
                  [] n = "x" -> Alias("y")
                  [] n = "y" -> Alias("x")]

\* the manifests a tool can start with: lists of distinct versions, in the
\* order they were installed
DistinctSeqs(n) ==
    {s \in [1..n -> Versions] : \A i, j \in 1..n : i # j => s[i] # s[j]}

InstalledSeqs == UNION {DistinctSeqs(n) : n \in 0..MaxInstalled}

InstalledOf(id) == IF id = "node" THEN InstalledSeqs ELSE {<<>>}

Range(s) == {s[i] : i \in DOMAIN s}

----------------------------------------------------------------------------
(* Version resolution, section 4.4 *)

Satisfies(v, spec) ==
    CASE spec.kind = "Req" -> v[1] = spec.major
      [] spec.kind = "Version" -> v = spec.version
      [] spec.kind = "Latest" -> TRUE
      [] OTHER -> FALSE

Highest(S) == CHOOSE v \in S : \A w \in S : w = v \/ VersionLess(w, v)

AliasCycle == [kind |-> "AliasCycle"]

RECURSIVE Deref(_, _)
\* step (1): follow aliases until a non-alias spec; a name met twice is a cycle
Deref(spec, seen) ==
    IF spec.kind # "Alias" THEN spec
    ELSE IF spec.name \in seen THEN AliasCycle
    ELSE IF spec.name \in DOMAIN AliasMap
         THEN Deref(AliasMap[spec.name], seen \cup {spec.name})
         ELSE spec

\* Tool::resolve_version followed by Tool::get_resolved_version
resolve_version(spec, inst, rem) ==
    LET d == Deref(spec, {})
        fromInst == {v \in Range(inst) : Satisfies(v, d)}
        fromRem == {v \in rem : Satisfies(v, d)}
    IN  IF d = AliasCycle THEN [ok |-> FALSE, err |-> "AliasCycle"]
        ELSE IF fromInst # {} THEN [ok |-> TRUE, version |-> RVersion(Highest(fromInst))]
        ELSE IF fromRem # {} THEN [ok |-> TRUE, version |-> RVersion(Highest(fromRem))]
        ELSE [ok |-> FALSE, err |-> "VersionNotFound"]

\* ProtoResource::load_tool: fails for an id no plugin is configured for
load_tool(id) ==
    IF id \in Ids THEN [ok |-> TRUE] ELSE [ok |-> FALSE, err |-> "UnknownTool"]

----------------------------------------------------------------------------
(* The frame of a command *)

\* What a process holds of its command: the arguments, the position (pc),
\* the tool's resolved version (NoLink while unset), the outcome of
\* resolution ("none" while it has not run), the spec handed to internal_pin
\* (NoPin before), the steps of internal_pin still to take, the document
\* ProtoConfig::update has loaded, the result, and the operations made so
\* far in their order.
Frame(op, id, spec, global, resolve, link) ==
    [op |-> op, pc |-> "idle", id |-> id, spec |-> spec, global |-> global,
     resolve |-> resolve, link |-> link, resolution |-> "none",
     resolved |-> NoLink, persist |-> NoPin, todo |-> <<>>, mem |-> <<>>,
     ok |-> TRUE, err |-> "", effects |-> <<>>]

\* a process that has not started its command
Idle(op) == Frame(op, "node", NoPin, FALSE, FALSE, FALSE)

\* the operation was called
Did(f, e) == [f EXCEPT !.effects = Append(@, e)]

Has(f, e) == \E i \in 1..Len(f.effects) : f.effects[i] = e

\* `?` on an error: the command returns it
Fail(f, e) == [f EXCEPT !.pc = "done", !.ok = FALSE, !.err = e, !.todo = <<>>]

\* go to the next step of internal_pin, or return Ok(())
Continue(f) ==
    IF f.todo = <<>> THEN [f EXCEPT !.pc = "done", !.ok = TRUE]
    ELSE [f EXCEPT !.pc = Head(f.todo).op]

\* the step at the head is over
Pop(f) == [f EXCEPT !.todo = Tail(@)]

ScopeOf(global) == IF global THEN "global" ELSE "local"

----------------------------------------------------------------------------
(* internal_pin and the config store, section 4.6 *)

\* a document that pins nothing
EmptyDoc == [id \in Ids |-> NoPin]

\* A variant of the closure that starts from a fresh map.
PinMutation_fresh_map(doc, id, spec) == [EmptyDoc EXCEPT ![id] = spec]

\* the closure internal_pin hands to ProtoConfig::update
PinMutation(doc, id, spec) == [doc EXCEPT ![id] = spec]

\* A variant of internal_pin that always writes the global document.
internal_pin_always_global(f, spec, global, link) ==
    Continue([f EXCEPT !.persist = spec,
                       !.todo = (IF global /\ link
                                 THEN <<[op |-> "symlink_bins", scope |-> "global"]>>
                                 ELSE <<>>)
                                \o <<[op |-> "update_load", scope |-> "global"]>>])

\* A variant of internal_pin that links on every global pin, asked or not.
internal_pin_link_when_global(f, spec, global, link) ==
    Continue([f EXCEPT !.persist = spec,
                       !.todo = (IF global
                                 THEN <<[op |-> "symlink_bins", scope |-> "global"]>>
                                 ELSE <<>>)
                                \o <<[op |-> "update_load", scope |-> ScopeOf(global)]>>])

\* A variant of internal_pin that updates the config before it links.
internal_pin_config_first(f, spec, global, link) ==
    Continue([f EXCEPT !.persist = spec,
                       !.todo = <<[op |-> "update_load", scope |-> ScopeOf(global)]>>
                                \o (IF global /\ link
                                    THEN <<[op |-> "symlink_bins", scope |-> "global"]>>
                                    ELSE <<>>)])

\* internal_pin(tool, spec, global, link), the tool being the frame's: the
\* steps it takes, in their order. Each is a step of the process; one that
\* fails ends the command (`?`), the last one returns Ok(()).
internal_pin(f, spec, global, link) ==
    Continue([f EXCEPT !.persist = spec,
                       !.todo = (IF global /\ link
                                 THEN <<[op |-> "symlink_bins", scope |-> "global"]>>
                                 ELSE <<>>)
                                \o <<[op |-> "update_load", scope |-> ScopeOf(global)]>>])

\* Tool::symlink_bins(true), awaited: links the bins of the tool's resolved
\* version, or fails
symlink_bins(p) ==
    /\ call[p].pc = "symlink_bins"
    /\ \E linkOk \in BOOLEAN :
        IF linkOk
        THEN /\ symlinks' = [symlinks EXCEPT ![call[p].id] = call[p].resolved]
             /\ call' = [call EXCEPT ![p] = Continue(Pop(Did(@, "symlink_bins")))]
        ELSE /\ symlinks' = symlinks
             /\ call' = [call EXCEPT ![p] = Fail(Did(@, "symlink_bins"), "SymlinkFailed")]
    /\ UNCHANGED <<cfg, installed, remote, writer, cfg0, wrapVars, listVars>>

\* ProtoConfig::update, first part: load the full document of the scope,
\* or fail to read it
update_load(p) ==
    /\ call[p].pc = "update_load"
    /\ \E readOk \in BOOLEAN :
        call' = [call EXCEPT ![p] =
                    IF readOk
                    THEN [Did(@, "config_load") EXCEPT
                            !.pc = "update_write",
                            !.mem = <<cfg[Head(call[p].todo).scope]>>]
                    ELSE Fail(Did(@, "config_load"), "IoError")]
    /\ UNCHANGED <<cfg, symlinks, installed, remote, writer, cfg0, wrapVars, listVars>>

\* ProtoConfig::update, second part: apply the closure to the loaded
\* document and write the full document back, atomically for a reader, or
\* fail and leave the file as it is
update_write(p) ==
    /\ call[p].pc = "update_write"
    /\ \E writeOk \in BOOLEAN :
        IF writeOk
        THEN /\ cfg' = [cfg EXCEPT ![Head(call[p].todo).scope] =
                            PinMutation(call[p].mem[1], call[p].id, call[p].persist)]
             /\ writer' = [writer EXCEPT ![Head(call[p].todo).scope] = <<p>>]
             /\ call' = [call EXCEPT ![p] = Continue(Pop(Did(@, "config_write")))]
        ELSE /\ UNCHANGED <<cfg, writer>>
             /\ call' = [call EXCEPT ![p] = Fail(@, "IoError")]
    /\ UNCHANGED <<symlinks, installed, remote, cfg0, wrapVars, listVars>>

SymlinkBins == \E p \in DOMAIN call : symlink_bins(p)

UpdateLoad == \E p \in DOMAIN call : update_load(p)

UpdateWrite == \E p \in DOMAIN call : update_write(p)

----------------------------------------------------------------------------
(* The pin command *)

\* the frame once the tool is resolved to r
Resolved(f, r) == [f EXCEPT !.resolution = "ok", !.resolved = r]

\* A variant of pin that resolves whether asked to or not.
pin_always_resolve(f, r) ==
    CASE f.pc = "load_tool" ->
            IF ~r.ok THEN Fail(f, r.err)
            ELSE [f EXCEPT !.pc = "resolve_version"]
      [] f.pc = "resolve_version" ->
            IF ~r.ok THEN Fail([f EXCEPT !.resolution = r.err], r.err)
            ELSE internal_pin(Resolved(f, r.version),
                              to_unresolved_spec(r.version), f.global, FALSE)

\* A variant of pin that resolves and then persists the spec as given.
pin_persist_given(f, r) ==
    CASE f.pc = "load_tool" ->
            IF ~r.ok THEN Fail(f, r.err)
            ELSE IF f.resolve THEN [f EXCEPT !.pc = "resolve_version"]
            ELSE internal_pin(f, f.spec, f.global, FALSE)
      [] f.pc = "resolve_version" ->
            IF ~r.ok THEN Fail([f EXCEPT !.resolution = r.err], r.err)
            ELSE internal_pin(Resolved(f, r.version), f.spec, f.global, FALSE)

\* A variant of pin that drops a resolution error and pins the spec as given.
pin_fallback(f, r) ==
    CASE f.pc = "load_tool" ->
            IF ~r.ok THEN Fail(f, r.err)
            ELSE IF f.resolve THEN [f EXCEPT !.pc = "resolve_version"]
            ELSE internal_pin(f, f.spec, f.global, FALSE)
      [] f.pc = "resolve_version" ->
            IF ~r.ok THEN internal_pin([f EXCEPT !.resolution = r.err],
                                       f.spec, f.global, FALSE)
            ELSE internal_pin(Resolved(f, r.version),
                              to_unresolved_spec(r.version), f.global, FALSE)

\* The pin command from the operation it awaits at f.pc, whose result is r,
\* to its next await: load_tool, then resolve_version when --resolve is
\* given, then internal_pin with link = false.
pin(f, r) ==
    CASE f.pc = "load_tool" ->
            IF ~r.ok THEN Fail(f, r.err)
            ELSE IF f.resolve THEN [f EXCEPT !.pc = "resolve_version"]
            ELSE internal_pin(f, f.spec, f.global, FALSE)
      [] f.pc = "resolve_version" ->
            IF ~r.ok THEN Fail([f EXCEPT !.resolution = r.err], r.err)
            ELSE internal_pin(Resolved(f, r.version),
                              to_unresolved_spec(r.version), f.global, FALSE)

\* the arguments of the pin command
PinArgs ==
    {a \in [id : ArgIds, spec : UNION {PinSpecs(id) : id \in Ids},
            global : BOOLEAN, resolve : BOOLEAN] :
        IF a.id \in Ids THEN a.spec \in PinSpecs(a.id)
        ELSE a.spec = Req(18) /\ ~a.global /\ ~a.resolve}

\* the command starts and proto.load_tool(id), awaited, returns
pin_load_tool(p) ==
    /\ call[p].op = "pin" /\ call[p].pc = "idle"
    /\ \E a \in PinArgs :
        call' = [call EXCEPT ![p] =
                    pin(Did([Frame("pin", a.id, a.spec, a.global, a.resolve, FALSE)
                                EXCEPT !.pc = "load_tool"], "load_tool"),
                        load_tool(a.id))]
    /\ UNCHANGED <<cfg, symlinks, installed, remote, writer, cfg0, wrapVars, listVars>>

\* tool.resolve_version(spec, false), awaited, returns: it reads the
\* manifest and the remote versions as they are now
pin_resolve_version(p) ==
    /\ call[p].op = "pin" /\ call[p].pc = "resolve_version"
    /\ call' = [call EXCEPT ![p] =
                    pin(Did(@, "resolve_version"),
                        resolve_version(call[p].spec, installed[call[p].id], remote))]
    /\ UNCHANGED <<cfg, symlinks, installed, remote, writer, cfg0, wrapVars, listVars>>

PinLoadTool == \E p \in DOMAIN call : pin_load_tool(p)

PinResolveVersion == \E p \in DOMAIN call : pin_resolve_version(p)

----------------------------------------------------------------------------
(* Another caller of internal_pin *)

\* what the install command installs and how it pins it
InstallArgs == [id : {"node"}, version : Versions, global : BOOLEAN, link : BOOLEAN]

\* The install command records the version it has installed in the manifest
\* (section 4.5) and calls internal_pin for it, its tool resolved to it,
\* with the scope and the link flag of its choosing.
install_pin(p) ==
    /\ call[p].op = "install" /\ call[p].pc = "idle"
    /\ \E a \in InstallArgs :
        /\ a.version \notin Range(installed[a.id])
        /\ installed' = [installed EXCEPT ![a.id] = Append(@, a.version)]
        /\ call' = [call EXCEPT ![p] =
                        internal_pin(
                            Resolved(Frame("install", a.id, UVersion(a.version),
                                           a.global, FALSE, a.link),
                                     RVersion(a.version)),
                            UVersion(a.version), a.global, a.link)]
    /\ UNCHANGED <<cfg, symlinks, remote, writer, cfg0, wrapVars, listVars>>

InstallPin == \E p \in DOMAIN call : install_pin(p)

----------------------------------------------------------------------------
(* Concurrent pins: processes that have each reached internal_pin *)

\* the number of processes that pin at the same time
NProcs == 2

Procs == 1..NProcs

Requests == [id : Ids, spec : {Req(18), UVersion(<<20, 1, 0>>)}, global : BOOLEAN]

\* the documents the scopes hold before the processes start
InitialDocs == {EmptyDoc, [id \in Ids |-> IF id = "node" THEN Latest ELSE Req(18)]}

\* the frame of a pin command without --resolve that has loaded its tool
AtInternalPin(r) ==
    pin(Did([Frame("pin", r.id, r.spec, r.global, FALSE, FALSE)
                EXCEPT !.pc = "load_tool"], "load_tool"),
        load_tool(r.id))

----------------------------------------------------------------------------
(* The plugin test wrapper *)

\* the longest path, in components
MaxPathLen == 2

Components == {"proto", "cwd", "etc"}

\* real host paths, as lists of components; <<>> is the empty path
Paths == UNION {[1..n -> Components] : n \in 0..MaxPathLen}

\* the host directories the plugin was loaded with, and their virtual mounts
Mounts == {[host |-> <<"proto">>, guest |-> <<"vproto">>],
           [host |-> <<"cwd">>, guest |-> <<"vcwd">>]}

IsPrefix(a, b) == Len(a) <= Len(b) /\ SubSeq(b, 1, Len(a)) = a

\* VirtualPath: a path alone, or a virtual path with the real one it stands for
VOnly(p) == [kind |-> "Only", path |-> p]

VWithReal(v, r) == [kind |-> "WithReal", path |-> v, real |-> r]

\* VirtualPath::virtual_path
virtual_path(vp) == vp.path

\* Tool::get_tool_dir: the tool's own directory, inside the store
get_tool_dir == <<"proto", "tools", "node">>

\* Tool::to_virtual_path: a path under a mapped directory is moved under the
\* directory's mount (section 4.1). The wrapper stores what it returns in a
\* VirtualPath field as it is: it returns a VirtualPath and no error, which
\* for a path outside the mapped directories holds the path alone
to_virtual_path(p) ==
    IF \E m \in Mounts : IsPrefix(m.host, p)
    THEN LET m == CHOOSE m \in Mounts : IsPrefix(m.host, p)
         IN  VWithReal(m.guest \o SubSeq(p, Len(m.host) + 1, Len(p)), p)
    ELSE VOnly(p)

ToolContexts == [tool_dir : {VOnly(p) : p \in Paths}, version : {"1.0.0", "2.0.0"}]

\* A variant of prepare_context that always takes the tool's directory.
prepare_context_own_dir(context) ==
    [context EXCEPT !.tool_dir = to_virtual_path(get_tool_dir)]

\* WasmTestWrapper::prepare_context
prepare_context(context) ==
    LET dir == IF Len(virtual_path(context.tool_dir)) = 0
               THEN get_tool_dir
               ELSE virtual_path(context.tool_dir)
    IN  [context EXCEPT !.tool_dir = to_virtual_path(dir)]

\* what the plugin received
NotCalled == [called |-> FALSE]

Called(input) == [called |-> TRUE, input |-> input]

WrapperCall(func, input, outcome, received) ==
    [func |-> func, input |-> input, outcome |-> outcome, received |-> received]

NoWrapperCall == WrapperCall("none", [payload |-> 0], "none", NotCalled)

\* The wrapper keeps no state between calls, so a behaviour is one call.
\* A wrapper method whose input carries a context: prepare the context,
\* then call the plugin function with the input
call_with_context(func, input) ==
    /\ wcall = NoWrapperCall
    /\ wcall' = WrapperCall(func, input, "ok",
                    Called([input EXCEPT !.context = prepare_context(input.context)]))
    /\ UNCHANGED <<pinVars, listVars>>

\* a wrapper method that hands its input to the plugin function as it is
call_plain(func, input) ==
    /\ wcall = NoWrapperCall
    /\ wcall' = WrapperCall(func, input, "ok", Called(input))
    /\ UNCHANGED <<pinVars, listVars>>

ContextInputs == [context : ToolContexts]

PlainInputs == [payload : {0, 1}]

detect_version_files == call_plain("detect_version_files", [payload |-> 0])

download_prebuilt == \E input \in ContextInputs : call_with_context("download_prebuilt", input)

load_versions == \E input \in PlainInputs : call_plain("load_versions", input)

locate_executables == \E input \in ContextInputs : call_with_context("locate_executables", input)

native_install == \E input \in ContextInputs : call_with_context("native_install", input)

native_uninstall == \E input \in ContextInputs : call_with_context("native_uninstall", input)

parse_version_file == \E input \in PlainInputs : call_plain("parse_version_file", input)

pre_install == \E input \in ContextInputs : call_with_context("pre_install", input)

pre_run == \E input \in ContextInputs : call_with_context("pre_run", input)

post_install == \E input \in ContextInputs : call_with_context("post_install", input)

register_tool == \E input \in PlainInputs : call_plain("register_tool", input)

wrapper_resolve_version == \E input \in PlainInputs : call_plain("resolve_version", input)

sync_manifest == \E input \in ContextInputs : call_with_context("sync_manifest", input)

sync_shell_profile == \E input \in ContextInputs : call_with_context("sync_shell_profile", input)

UnpackInputs == [input_file : {VOnly(p) : p \in Paths}, output_dir : {VOnly(p) : p \in Paths}]

\* WasmTestWrapper::unpack_archive
unpack_archive ==
    \E input \in UnpackInputs :
        /\ wcall = NoWrapperCall
        /\ wcall' = WrapperCall("unpack_archive", input, "ok",
                        Called([input_file |-> to_virtual_path(virtual_path(input.input_file)),
                                output_dir |-> to_virtual_path(virtual_path(input.output_dir))]))
        /\ UNCHANGED <<pinVars, listVars>>

VerifyInputs == [checksum_file : {VOnly(p) : p \in Paths}, download_file : {VOnly(p) : p \in Paths}]

\* WasmTestWrapper::verify_checksum
verify_checksum ==
    \E input \in VerifyInputs :
        /\ wcall = NoWrapperCall
        /\ wcall' = WrapperCall("verify_checksum", input, "ok",
                        Called([checksum_file |-> to_virtual_path(virtual_path(input.checksum_file)),
                                download_file |-> to_virtual_path(virtual_path(input.download_file))]))
        /\ UNCHANGED <<pinVars, listVars>>

----------------------------------------------------------------------------
(* Timestamps and dates *)

\* A u128 is eight 16-bit limbs, the most significant first, an i64 four.
Limb == 65536

\* timestamps in milliseconds since the epoch: 86399999 and 86400000, the
\* last millisecond of a day and the first of the next
T0 == <<0, 0, 0, 0, 0, 0, 1318, 23551>>

T1 == <<0, 0, 0, 0, 0, 0, 1318, 23552>>

\* 8210266876800000, the first millisecond of the year 262143
TBig == <<0, 0, 0, 0, 29, 11057, 47283, 60416>>

\* 18446744073709551616000, which is 2^64 seconds
TWrap == <<0, 0, 0, 1000, 0, 0, 0, 0>>

\* 18446735739108322815999 and 18446735739108322816000: as an i64 their
\* seconds are negative, the last second of the year -262144 and the
\* first of the year -262143
TBelow == <<0, 0, 0, 999, 65506, 25529, 28265, 45055>>

TMin == <<0, 0, 0, 999, 65506, 25529, 28265, 45056>>

RECURSIVE LongDiv(_, _, _)
\* x / d and x % d for a divisor below 2^15, r being the remainder carried
LongDiv(x, d, r) ==
    IF x = <<>> THEN [q |-> <<>>, r |-> r]
    ELSE LET n == r * Limb + Head(x)
             rest == LongDiv(Tail(x), d, n % d)
         IN  [q |-> <<n \div d>> \o rest.q, r |-> rest.r]

RECURSIVE Incr(_)
\* x + 1 in the width of x
Incr(x) ==
    IF x = <<>> THEN <<>>
    ELSE IF x[Len(x)] < Limb - 1 THEN [x EXCEPT ![Len(x)] = @ + 1]
    ELSE Incr(SubSeq(x, 1, Len(x) - 1)) \o <<0>>

\* -x in two's complement
Negate(x) == Incr([i \in 1..Len(x) |-> Limb - 1 - x[i]])

\* chrono's NaiveDate::MIN and MAX, -262143-01-01 and 262142-12-31, in days
\* since the epoch
MinDay == 0 - 96465292

MaxDay == 95026236

None == [some |-> FALSE]

\* DateTime::from_timestamp(secs, nsecs) for an i64 secs, then naive_local:
\* the day since the epoch, the second of the day and the nanosecond, or
\* None when the day is outside chrono's range
from_timestamp(secs, nsecs) ==
    LET neg == secs[1] >= Limb \div 2
        mag == IF neg THEN Negate(secs) ELSE secs
        hours == LongDiv(mag, 3600, 0)
        days == LongDiv(hours.q, 24, 0)
        rem == days.r * 3600 + hours.r
        small == days.q[1] = 0 /\ days.q[2] = 0 /\ days.q[3] < Limb \div 2
        q == days.q[3] * Limb + days.q[4]
        day == IF neg THEN 0 - q - (IF rem > 0 THEN 1 ELSE 0) ELSE q
    IN  IF small /\ day >= MinDay /\ day <= MaxDay
        THEN [some |-> TRUE, date |-> day,
              secs |-> IF neg THEN (86400 - rem) % 86400 ELSE rem,
              nanos |-> nsecs]
        ELSE None

\* create_datetime: (millis / 1000) as i64 keeps the low 64 bits
create_datetime(millis) ==
    LET s == LongDiv(millis, 1000, 0)
    IN  from_timestamp(SubSeq(s.q, 5, 8), s.r * 1000000)

\* NaiveDateTime::format("%x"): month, day and the year modulo 100
FormatDate(at) ==
    LET z == at.date + 719468
        era == z \div 146097
        doe == z % 146097
        yoe == (doe - doe \div 1460 + doe \div 36524 - doe \div 146096) \div 365
        doy == doe - (365 * yoe + yoe \div 4 - yoe \div 100)
        mp == (5 * doy + 2) \div 153
        d == doy - (153 * mp + 2) \div 5 + 1
        m == IF mp < 10 THEN mp + 3 ELSE mp - 9
        y == yoe + era * 400 + (IF m <= 2 THEN 1 ELSE 0)
    IN  <<m, d, y % 100>>

----------------------------------------------------------------------------
(* The plugin listing *)

NoMeta == [kind |-> "NoMeta"]

Meta(t) == [kind |-> "Meta", installed_at |-> t]

\* a last-used marker file: absent, holding a timestamp, or unreadable
NoMarker == [kind |-> "NoMarker"]

Marker(t) == [kind |-> "Marker", at |-> t]

Unreadable == [kind |-> "Unreadable"]

\* what an installed version can have on disk: its metadata in the
\* manifest and its marker file
VersionFiles ==
    {[meta |-> NoMeta, used |-> NoMarker],
     [meta |-> NoMeta, used |-> Marker(T1)],
     [meta |-> Meta(T0), used |-> NoMarker],
     [meta |-> Meta(T1), used |-> NoMarker],
     [meta |-> Meta(TBig), used |-> NoMarker],
     [meta |-> Meta(T0), used |-> Unreadable],
     [meta |-> Meta(T0), used |-> Marker(T1)],
     [meta |-> Meta(T0), used |-> Marker(TBelow)],
     [meta |-> Meta(T0), used |-> Marker(TMin)],
     [meta |-> Meta(T1), used |-> Marker(TBig)],
     [meta |-> Meta(TBig), used |-> Marker(TWrap)]}

\* the comments of an entry
InstalledComment(at) == [text |-> "installed", date |-> FormatDate(at)]

LastUsedComment(at) == [text |-> "last used", date |-> FormatDate(at)]

DefaultComment == [text |-> "default version"]

Lowest(S) == CHOOSE v \in S : \A w \in S : w = v \/ VersionLess(v, w)

RECURSIVE SortAsc(_)
\* Vec::sort on versions
SortAsc(S) == IF S = {} THEN <<>>
              ELSE <<Lowest(S)>> \o SortAsc(S \ {Lowest(S)})

\* ProtoEnvironment::load_config: the merged config, local over global
load_config ==
    [id \in Ids |-> IF cfg["local"][id] # NoPin THEN cfg["local"][id]
                    ELSE cfg["global"][id]]

\* ToolManifest::load_used_at for the version's directory: Ok(Some(..)) for
\* a marker that holds a timestamp
load_used_at(id, v) == used[id][v]

\* A variant of the entry that marks every version the pin matches.
VersionEntry_default_if_satisfies(tool, v, config) ==
    LET m == tool.manifest.versions[v]
        u == load_used_at(tool.id, v)
        is_default == config[tool.id] # NoPin /\ Satisfies(v, config[tool.id])
    IN  [version |-> v,
         style |-> IF is_default THEN "invalid" ELSE "hash",
         comments |->
            (IF m.kind = "Meta" /\ create_datetime(m.installed_at).some
             THEN <<InstalledComment(create_datetime(m.installed_at))>> ELSE <<>>)
            \o (IF m.kind = "Meta" /\ u.kind = "Marker" /\ create_datetime(u.at).some
                THEN <<LastUsedComment(create_datetime(u.at))>> ELSE <<>>)
            \o (IF is_default THEN <<DefaultComment>> ELSE <<>>)]

\* the entry of one installed version in the "Versions" map: the version in
\* the colour of its kind, and its comments in the order they are joined;
\* the metadata is the loaded manifest's, the marker file is read now
VersionEntry(tool, v, config) ==
    LET m == tool.manifest.versions[v]
        u == load_used_at(tool.id, v)
        is_default == config[tool.id] # NoPin
                        /\ config[tool.id] = to_unresolved_spec(RVersion(v))
    IN  [version |-> v,
         style |-> IF is_default THEN "invalid" ELSE "hash",
         comments |->
            (IF m.kind = "Meta" /\ create_datetime(m.installed_at).some
             THEN <<InstalledComment(create_datetime(m.installed_at))>> ELSE <<>>)
            \o (IF m.kind = "Meta" /\ u.kind = "Marker" /\ create_datetime(u.at).some
                THEN <<LastUsedComment(create_datetime(u.at))>> ELSE <<>>)
            \o (IF is_default THEN <<DefaultComment>> ELSE <<>>)]

\* the tools in the order of their ids
IdOrder == <<"bun", "node">>

\* the arguments of the plugin list command
ListArgs ==
    [ids : {{}, {"node"}}, aliases : BOOLEAN, json : BOOLEAN, versions : BOOLEAN]

\* a tool as loaded: its id and the manifest read when it was loaded
LoadedTool(id) ==
    [id |-> id,
     manifest |-> [installed_versions |-> installed[id], versions |-> meta[id]]]

\* the frame of the command: its arguments, its position, the config it
\* has loaded, the tools it has loaded in the order of their ids, the tool
\* it is at, what the printer has buffered, and the result
IdleList ==
    [pc |-> "idle",
     args |-> [ids |-> {}, aliases |-> FALSE, json |-> FALSE, versions |-> FALSE],
     config |-> EmptyDoc, tools |-> <<>>, idx |-> 0, buffer |-> <<>>,
     ok |-> TRUE, err |-> ""]

NoListing == [mode |-> "none", items |-> {}, sections |-> <<>>]

ListFail(f, e) == [f EXCEPT !.pc = "done", !.ok = FALSE, !.err = e]

\* the section the printer buffers for a tool
Section(tool, args, config) ==
    [id |-> tool.id, aliases |-> args.aliases, versions_shown |-> args.versions,
     versions |->
        IF args.versions
        THEN LET sorted == SortAsc(Range(tool.manifest.installed_versions))
             IN  [k \in 1..Len(sorted) |-> VersionEntry(tool, sorted[k], config)]
        ELSE <<>>]

\* the command starts: proto.env.load_config()?, then load_tools_with_filters
\* is awaited
list_load_config ==
    /\ lcall.pc = "idle"
    /\ \E a \in ListArgs : \E readOk \in BOOLEAN :
        lcall' = IF readOk
                 THEN [IdleList EXCEPT !.pc = "load_tools", !.args = a,
                                       !.config = load_config]
                 ELSE ListFail([IdleList EXCEPT !.args = a], "IoError")
    /\ UNCHANGED <<pinVars, wrapVars, meta, used, listing>>

\* load_tools_with_filters returns; the tools are sorted by id; with --json
\* the items are serialized and printed and the command returns, otherwise
\* the resolver of the first tool is awaited
list_load_tools ==
    /\ lcall.pc = "load_tools"
    /\ \E loadOk, encodeOk \in BOOLEAN :
        LET Listed(id) == lcall.args.ids = {} \/ id \in lcall.args.ids
            ids == SelectSeq(IdOrder, Listed)
            tools == [k \in 1..Len(ids) |-> LoadedTool(ids[k])]
        IN  IF ~loadOk
            THEN /\ lcall' = ListFail(lcall, "PluginLoadFailed")
                 /\ listing' = listing
            ELSE IF lcall.args.json
            THEN IF encodeOk
                 THEN /\ lcall' = [lcall EXCEPT !.pc = "done", !.tools = tools]
                      /\ listing' = [mode |-> "json", items |-> Range(ids),
                                     sections |-> <<>>]
                 ELSE /\ lcall' = ListFail([lcall EXCEPT !.tools = tools],
                                           "EncodingError")
                      /\ listing' = listing
            ELSE /\ lcall' = [lcall EXCEPT !.tools = tools, !.idx = 1,
                                !.pc = IF tools = <<>> THEN "flush" ELSE "tool"]
                 /\ listing' = listing
    /\ UNCHANGED <<pinVars, wrapVars, meta, used>>

\* tool.load_version_resolver returns for the tool the loop is at: on an
\* error, its own or that of printer.section, the command returns and what
\* the printer holds is never flushed; otherwise the tool's section is
\* buffered and the loop goes on
list_tool ==
    /\ lcall.pc = "tool"
    /\ \E resolverOk, sectionOk \in BOOLEAN :
        lcall' = IF ~resolverOk
                 THEN ListFail(lcall, "PluginExecutionFailed")
                 ELSE IF ~sectionOk
                 THEN ListFail(lcall, "PrinterError")
                 ELSE [lcall EXCEPT
                        !.buffer = Append(@, Section(lcall.tools[lcall.idx],
                                                     lcall.args, lcall.config)),
                        !.idx = @ + 1,
                        !.pc = IF lcall.idx = Len(lcall.tools)
                               THEN "flush" ELSE "tool"]
    /\ UNCHANGED <<pinVars, wrapVars, meta, used, listing>>

\* printer.lock().await.flush(): the sections reach the console
list_flush ==
    /\ lcall.pc = "flush"
    /\ lcall' = [lcall EXCEPT !.pc = "done"]
    /\ listing' = [mode |-> "text",
                   items |-> {lcall.tools[k].id : k \in 1..Len(lcall.tools)},
                   sections |-> lcall.buffer]
    /\ UNCHANGED <<pinVars, wrapVars, meta, used>>

\* another process runs an installed version of a tool for the first time
\* and records when: the version's marker file appears
record_last_used(p) ==
    /\ call[p].op = "run" /\ call[p].pc = "idle"
    /\ \E id \in Ids : \E v \in Range(installed[id]) :
        /\ used[id][v] = NoMarker
        /\ used' = [used EXCEPT ![id][v] = Marker(T1)]
        /\ call' = [call EXCEPT ![p] = [@ EXCEPT !.pc = "done", !.id = id]]
    /\ UNCHANGED <<cfg, symlinks, installed, remote, writer, cfg0,
                   wrapVars, meta, lcall, listing>>

RecordLastUsed == \E p \in DOMAIN call : record_last_used(p)

\* the plugin list command
list == list_load_config \/ list_load_tools \/ list_tool \/ list_flush

----------------------------------------------------------------------------
(* Specifications *)

InstalledChoices ==
    {f \in [Ids -> InstalledSeqs] : \A id \in Ids : f[id] \in InstalledOf(id)}

NoDisk ==
    /\ installed = [id \in Ids |-> <<>>]
    /\ remote = {}
    /\ symlinks = [id \in Ids |-> NoLink]

WrapIdle == wcall = NoWrapperCall

NoManifestFiles ==
    /\ meta = [id \in Ids |-> [v \in Versions |-> NoMeta]]
    /\ used = [id \in Ids |-> [v \in Versions |-> NoMarker]]

ListIdle ==
    /\ NoManifestFiles
    /\ lcall = IdleList
    /\ listing = NoListing

\* a pin command and an install command, each in its own process
Init ==
    /\ cfg \in {[s \in Scopes |-> d] : d \in InitialDocs}
    /\ cfg0 = cfg
    /\ installed \in InstalledChoices
    /\ remote \in {{}, Versions}
    /\ symlinks = [id \in Ids |-> NoLink]
    /\ call = [p \in {"pin", "install"} |-> Idle(p)]
    /\ writer = [s \in Scopes |-> <<>>]
    /\ WrapIdle /\ ListIdle

Next ==
    \/ PinLoadTool
    \/ PinResolveVersion
    \/ InstallPin
    \/ SymlinkBins
    \/ UpdateLoad
    \/ UpdateWrite

Spec == Init /\ [][Next]_vars

\* processes that each run the ProtoConfig::update of a pin, interleaved
InitConc ==
    /\ cfg \in [Scopes -> InitialDocs]
    /\ cfg0 = cfg
    /\ NoDisk
    /\ call \in [Procs -> {AtInternalPin(r) : r \in Requests}]
    /\ writer = [s \in Scopes |-> <<>>]
    /\ WrapIdle /\ ListIdle

NextConc == UpdateLoad \/ UpdateWrite

SpecConc == InitConc /\ [][NextConc]_vars

\* calls through the test wrapper
InitWrapper ==
    /\ cfg = [s \in Scopes |-> EmptyDoc]
    /\ cfg0 = cfg
    /\ NoDisk
    /\ call = [p \in {"pin"} |-> Idle("none")]
    /\ writer = [s \in Scopes |-> <<>>]
    /\ WrapIdle /\ ListIdle

NextWrapper ==
    \/ detect_version_files
    \/ download_prebuilt
    \/ load_versions
    \/ locate_executables
    \/ native_install
    \/ native_uninstall
    \/ parse_version_file
    \/ pre_install
    \/ pre_run
    \/ post_install
    \/ register_tool
    \/ wrapper_resolve_version
    \/ sync_manifest
    \/ sync_shell_profile
    \/ unpack_archive
    \/ verify_checksum

SpecWrapper == InitWrapper /\ [][NextWrapper]_vars

\* the pins the listing starts from, per scope
ListDocs(scope) ==
    {[EmptyDoc EXCEPT !["node"] = s] :
        s \in IF scope = "global"
              THEN {NoPin, Req(18), UVersion(<<20, 1, 0>>)}
              ELSE {NoPin, UVersion(<<18, 4, 0>>)}}

\* the pin another process is making while the listing runs
ListPins == {[id |-> "node", spec |-> UVersion(<<18, 19, 0>>), global |-> FALSE]}

\* the manifests a listing starts from: the versions out of their order
ListManifests ==
    {f \in InstalledChoices :
        \A id \in Ids : \A i, j \in 1..Len(f[id]) :
            i < j => VersionLess(f[id][j], f[id][i])}

\* the files most installed versions have
CommonFiles ==
    {[meta |-> NoMeta, used |-> NoMarker],
     [meta |-> Meta(T0), used |-> NoMarker]}

\* the files of the tool's installed versions, all but one of them with
\* common files
FilesOf(id) ==
    {f \in [Versions -> VersionFiles] :
        /\ \A v \in Versions :
            v \notin Range(installed[id]) => f[v] = [meta |-> NoMeta, used |-> NoMarker]
        /\ \E v \in Versions :
            \A w \in Range(installed[id]) \ {v} : f[w] \in CommonFiles}

\* a plugin listing over a config, manifests and marker files, while a pin
\* of another process is in its ProtoConfig::update and other processes run
\* the installed versions
InitList ==
    /\ cfg \in {c \in [Scopes -> UNION {ListDocs(s) : s \in Scopes}] :
                    \A s \in Scopes : c[s] \in ListDocs(s)}
    /\ cfg0 = cfg
    /\ installed \in ListManifests
    /\ remote = {}
    /\ symlinks = [id \in Ids |-> NoLink]
    /\ \E fb \in FilesOf("bun") : \E fn \in FilesOf("node") :
        LET f == [id \in Ids |-> IF id = "bun" THEN fb ELSE fn]
        IN  /\ meta = [id \in Ids |-> [v \in Versions |-> f[id][v].meta]]
            /\ used = [id \in Ids |-> [v \in Versions |-> f[id][v].used]]
    /\ \E r \in ListPins :
        call = [p \in {"pin", "run"} |->
                    IF p = "pin" THEN AtInternalPin(r) ELSE Idle("run")]
    /\ writer = [s \in Scopes |-> <<>>]
    /\ lcall = IdleList
    /\ listing = NoListing
    /\ WrapIdle

NextList == list \/ UpdateLoad \/ UpdateWrite \/ RecordLastUsed

SpecList == InitList /\ [][NextList]_vars

----------------------------------------------------------------------------
(* Claims about the pin command, checked under Spec *)

OtherScope(global) == IF global THEN "local" ELSE "global"

\* process p takes the step
Stepped(p) == call'[p] # call[p]

\* process p's command returns in the step
Returns(p) == call[p].pc # "done" /\ call'[p].pc = "done"

\* a comes before b in the operations of the frame
Before(f, a, b) ==
    \E i, j \in 1..Len(f.effects) : i < j /\ f.effects[i] = a /\ f.effects[j] = b

\* C1: no step of a command that pins at local scope changes the global
\* document, and no step of one that pins at global scope changes the local
\* document: only the document of the scope selected by `global` is written.
C1_PinWritesOnlyItsScope ==
    [][\A p \in DOMAIN call :
          Stepped(p) =>
              cfg'[OtherScope(call'[p].global)] = cfg[OtherScope(call'[p].global)]]_vars

\* C1 witness: a local pin has been written while the global document
\* holds a pin of its own for the same tool.
C1_Witness ==
    /\ call["pin"].pc = "done" /\ call["pin"].ok /\ ~call["pin"].global
    /\ cfg["local"][call["pin"].id] = call["pin"].persist
    /\ cfg["global"][call["pin"].id] # NoPin
    /\ cfg["global"][call["pin"].id] # call["pin"].persist

\* C2: a pin without --resolve that succeeds has performed no resolution; the
\* document it writes in the target scope maps the tool to exactly the spec
\* given and every other tool to the pin of the document it loaded, so that,
\* no other process having written in between, the pins of the other tools
\* are as they were.
C2_PinUnresolvedAsGiven ==
    [][\A p \in DOMAIN call :
          (Returns(p) /\ call'[p].op = "pin" /\ ~call'[p].resolve /\ call'[p].ok) =>
              LET s == ScopeOf(call'[p].global)
              IN  /\ call'[p].resolution = "none"
                  /\ ~Has(call'[p], "resolve_version")
                  /\ cfg'[s][call'[p].id] = call'[p].spec
                  /\ \A other \in Ids \ {call'[p].id} :
                        /\ cfg'[s][other] = call[p].mem[1][other]
                        /\ cfg[s] = call[p].mem[1] => cfg'[s][other] = cfg[s][other]]_vars

\* C2 witness: "18" was pinned with resolve disabled and stays "18", in a
\* document that holds a pin of another tool, although resolving it would
\* have given a concrete version.
C2_Witness ==
    /\ call["pin"].pc = "done" /\ call["pin"].ok /\ ~call["pin"].resolve
    /\ call["pin"].spec = Req(18)
    /\ cfg[ScopeOf(call["pin"].global)][call["pin"].id] = Req(18)
    /\ \E other \in Ids \ {call["pin"].id} :
            cfg[ScopeOf(call["pin"].global)][other] # NoPin
    /\ resolve_version(call["pin"].spec, installed[call["pin"].id], remote).ok

\* the installed versions of the tool that satisfy the spec, once its
\* aliases are followed
InstalledMatches(id, spec) ==
    {v \in Range(installed[id]) : Satisfies(v, Deref(spec, {}))}

\* C3: in a pin with --resolve, resolution chooses the highest of the
\* installed versions that satisfy the requested spec, when there are any,
\* and what the command then persists is the version chosen, a full concrete
\* version rendered back as an unresolved spec, never a partial spec, an
\* alias or "latest" as given.
C3_PinResolvedHighest ==
    [][\A p \in DOMAIN call :
          (Stepped(p) /\ call'[p].op = "pin" /\ call'[p].resolve) =>
              /\ (call[p].pc = "resolve_version" /\ call'[p].resolution = "ok") =>
                    LET m == InstalledMatches(call[p].id, call[p].spec)
                        got == call'[p].resolved.version
                    IN  m # {} => got \in m /\ \A w \in m : ~VersionLess(got, w)
              /\ (Returns(p) /\ call'[p].ok) =>
                    LET pinned == cfg'[ScopeOf(call[p].global)][call[p].id]
                    IN  /\ call[p].resolution = "ok"
                        /\ pinned.kind = "Version"
                        /\ pinned.version \in Versions
                        /\ pinned = to_unresolved_spec(call[p].resolved)
                        /\ call[p].spec.kind # "Version" => pinned # call[p].spec]_vars

\* C3 witness: 18.19.0 was installed before 18.4.0, a higher version that
\* does not match is known remotely, and "18" resolved to 18.19.0.
C3_Witness ==
    /\ call["pin"].pc = "done" /\ call["pin"].ok /\ call["pin"].resolve
    /\ call["pin"].spec = Req(18)
    /\ installed[call["pin"].id] = << <<18, 19, 0>>, <<18, 4, 0>> >>
    /\ <<20, 1, 0>> \in remote
    /\ cfg[ScopeOf(call["pin"].global)][call["pin"].id] = UVersion(<<18, 19, 0>>)

\* C7: a symlink is created or changed only by the symlink step of an
\* internal_pin with global and link both set; a command that pins locally,
\* or with link unset, never calls symlink_bins, and the pin command passes
\* link = FALSE and never links.
C7_SymlinkOnlyWhenGlobalAndLink ==
    [][/\ symlinks' # symlinks =>
            \E p \in DOMAIN call :
                Stepped(p) /\ call[p].pc = "symlink_bins"
                    /\ call[p].global /\ call[p].link
       /\ \A p \in DOMAIN call :
            Stepped(p) =>
                /\ (Has(call'[p], "symlink_bins") \/ call'[p].pc = "symlink_bins")
                        => (call'[p].global /\ call'[p].link)
                /\ call'[p].op = "pin" =>
                        (~call'[p].link /\ symlinks' = symlinks)]_vars

\* C7 witness: a global pin by the pin command, for a tool whose symlink
\* points at another version than the one pinned.
C7_Witness ==
    /\ call["pin"].pc = "done" /\ call["pin"].ok /\ call["pin"].global
    /\ symlinks[call["pin"].id] # NoLink
    /\ call["pin"].persist.kind = "Version"
    /\ to_unresolved_spec(symlinks[call["pin"].id]) # call["pin"].persist
    /\ cfg["global"][call["pin"].id] = call["pin"].persist

\* C9: when resolution fails in a pin with --resolve, the command returns
\* that error there and then: internal_pin is not reached, the documents of
\* both scopes and the symlinks are as before, and a command that has
\* returned takes no further step.
C9_ResolveFailureWritesNothing ==
    [][\A p \in DOMAIN call :
          /\ (Stepped(p) /\ call[p].op = "pin" /\ call[p].pc = "resolve_version"
                /\ call'[p].resolution # "ok") =>
                /\ call'[p].pc = "done"
                /\ ~call'[p].ok
                /\ call'[p].err = call'[p].resolution
                /\ call'[p].err \in {"AliasCycle", "VersionNotFound"}
                /\ call'[p].persist = NoPin
                /\ call'[p].todo = <<>>
                /\ call'[p].effects = <<"load_tool", "resolve_version">>
                /\ cfg' = cfg
                /\ symlinks' = symlinks
          /\ call[p].pc = "done" => call'[p] = call[p]]_vars

\* C9 witness: resolution of a spec nothing satisfies has failed, for a tool
\* that is pinned and stays pinned as it was.
C9_Witness ==
    /\ call["pin"].pc = "done" /\ ~call["pin"].ok /\ call["pin"].resolve
    /\ call["pin"].err = "VersionNotFound"
    /\ call["pin"].spec.kind = "Req"
    /\ cfg[ScopeOf(call["pin"].global)][call["pin"].id] \notin {NoPin, call["pin"].spec}

\* C10: in an internal_pin with global and link, the symlink step comes
\* first: it runs before the config is loaded; if it fails the command
\* returns the error with the config neither loaded nor written; and the
\* config is loaded and written only after the symlink step has succeeded.
C10_SymlinkBeforeConfig ==
    [][\A p \in DOMAIN call :
          (Stepped(p) /\ call'[p].op # "none" /\ call'[p].global /\ call'[p].link) =>
              /\ call[p].pc = "symlink_bins" =>
                    /\ ~Has(call[p], "config_load") /\ ~Has(call[p], "config_write")
                    /\ cfg' = cfg
              /\ call'[p].err = "SymlinkFailed" =>
                    /\ call[p].pc = "symlink_bins"
                    /\ call'[p].pc = "done" /\ ~call'[p].ok
                    /\ ~Has(call'[p], "config_load") /\ ~Has(call'[p], "config_write")
              /\ call[p].pc \in {"update_load", "update_write"} =>
                    /\ Has(call[p], "symlink_bins")
                    /\ symlinks[call[p].id] # NoLink
              /\ Has(call'[p], "config_load") =>
                    Before(call'[p], "symlink_bins", "config_load")
              /\ cfg' # cfg =>
                    /\ Before(call'[p], "symlink_bins", "config_write")
                    /\ cfg'["global"][call[p].id] = call[p].persist]_vars

\* C10 witness: the symlink step of a linking global pin has failed and the
\* global document does not hold the pin.
C10_Witness ==
    /\ call["install"].pc = "done" /\ ~call["install"].ok
    /\ call["install"].global /\ call["install"].link
    /\ call["install"].err = "SymlinkFailed"
    /\ call["install"].effects = <<"symlink_bins">>
    /\ cfg["global"][call["install"].id] # call["install"].persist

----------------------------------------------------------------------------
(* Claims about concurrent pins, checked under SpecConc *)

Wrote(p) == Has(call[p], "config_write")

\* what process p's update call writes: the document it loaded, with its
\* tool mapped to its spec
WrittenBy(p) ==
    [id \in Ids |-> IF id = call[p].id THEN call[p].persist ELSE call[p].mem[1][id]]

\* the complete documents a reader of the scope's file can have seen
CompleteDocs(s) ==
    {cfg0[s]} \cup {WrittenBy(p) : p \in {q \in DOMAIN call :
                        Wrote(q) /\ ScopeOf(call[q].global) = s}}

\* C4: the file of a scope always holds a complete document: the initial
\* one while no process has written, and from then on exactly the document
\* written by the process that wrote last (what it loaded, plus its own
\* pin). What a process loads is a complete document too.
C4_LastWriterWins ==
    /\ \A s \in Scopes :
        /\ writer[s] = <<>> => cfg[s] = cfg0[s]
        /\ writer[s] # <<>> =>
            /\ Wrote(writer[s][1])
            /\ ScopeOf(call[writer[s][1]].global) = s
            /\ cfg[s] = WrittenBy(writer[s][1])
    /\ \A p \in DOMAIN call :
        call[p].mem # <<>> => call[p].mem[1] \in CompleteDocs(ScopeOf(call[p].global))

\* C4 witness: two processes have pinned different tools in the same
\* document; the file is the last writer's, and the pin of the earlier
\* writer is lost.
C4_Witness ==
    \E p, q \in DOMAIN call :
        /\ p # q /\ Wrote(p) /\ Wrote(q)
        /\ call[p].global = call[q].global
        /\ call[p].id # call[q].id
        /\ writer[ScopeOf(call[p].global)] = <<p>>
        /\ cfg[ScopeOf(call[p].global)][call[p].id] = call[p].persist
        /\ cfg[ScopeOf(call[p].global)][call[q].id] # call[q].persist
        /\ cfg[ScopeOf(call[p].global)][call[q].id] = cfg0[ScopeOf(call[p].global)][call[q].id]

(* Claims about the test wrapper, checked under SpecWrapper *)

ContextFuncs == {"download_prebuilt", "locate_executables", "native_install",
                 "native_uninstall", "pre_install", "post_install", "pre_run",
                 "sync_manifest", "sync_shell_profile"}

\* the path lies in a mapped directory
Mapped(p) == \E m \in Mounts : IsPrefix(m.host, p)

\* the directory a context stands for: the tool's own when the caller's is empty
EffectiveDir(context) ==
    IF context.tool_dir.path = <<>> THEN get_tool_dir ELSE context.tool_dir.path

\* a translated path: under a mount, and standing for the real path r
IsTranslationOf(vp, r) ==
    /\ vp.kind = "WithReal"
    /\ vp.real = r
    /\ \E m \in Mounts : /\ IsPrefix(m.host, r)
                         /\ IsPrefix(m.guest, vp.path)
                         /\ Len(vp.path) - Len(m.guest) = Len(r) - Len(m.host)
                         /\ \A i \in 1..(Len(r) - Len(m.host)) :
                                vp.path[Len(m.guest) + i] = r[Len(m.host) + i]

PathFields(c) ==
    CASE c.func = "unpack_archive" -> {"input_file", "output_dir"}
      [] c.func = "verify_checksum" -> {"checksum_file", "download_file"}
      [] OTHER -> {}

\* C6: a call with a path-bearing field whose real path lies outside every
\* mapped directory fails with PathNotMapped and does not reach the plugin;
\* every path the plugin receives is a translated one.
C6_UnmappedPathNeverReachesPlugin ==
    /\ \A f \in PathFields(wcall) :
        /\ ~Mapped(wcall.input[f].path) =>
                wcall.outcome = "PathNotMapped" /\ ~wcall.received.called
        /\ wcall.received.called =>
                IsTranslationOf(wcall.received.input[f], wcall.input[f].path)
    /\ wcall.func \in ContextFuncs =>
        /\ ~Mapped(EffectiveDir(wcall.input.context)) =>
                wcall.outcome = "PathNotMapped" /\ ~wcall.received.called
        /\ wcall.received.called =>
                Mapped(wcall.received.input.context.tool_dir.real)

\* C6 witness: unpack_archive was given an archive in a mapped directory
\* and an output directory outside all of them; the plugin was called and
\* received the output directory's real path.
C6_Witness ==
    /\ wcall.func = "unpack_archive"
    /\ Mapped(wcall.input.input_file.path)
    /\ ~Mapped(wcall.input.output_dir.path)
    /\ wcall.input.output_dir.path # <<>>
    /\ wcall.received.called
    /\ wcall.received.input.output_dir = VOnly(wcall.input.output_dir.path)

----------------------------------------------------------------------------
(* Claims about the plugin listing, checked under SpecList *)

\* the tool's pinned spec in the config the command loaded
PinnedSpec(id) == lcall.config[id]

IsPinnedVersion(id, v) ==
    PinnedSpec(id).kind = "Version" /\ PinnedSpec(id).version = v

HasDefault(e) == \E i \in 1..Len(e.comments) : e.comments[i].text = "default version"

\* the dates of the install times used that have one: 86399999 is on
\* 01/01/70 and 86400000 on 01/02/70
DateOf(t) == IF t = T0 THEN <<1, 1, 70>> ELSE <<1, 2, 70>>

\* the sections a listing with versions shown has printed
PrintedSections ==
    IF listing.mode = "text"
    THEN {i \in 1..Len(listing.sections) : listing.sections[i].versions_shown}
    ELSE {}

\* each installed version of the tool has one entry, in ascending order;
\* an entry carries "default version" and the pinned colour exactly when
\* the tool's pinned spec is that version, so at most one does
EntriesOfSection(s) ==
    LET id == s.id
        es == s.versions
    IN  /\ Len(es) = Cardinality(Range(installed[id]))
        /\ {es[k].version : k \in 1..Len(es)} = Range(installed[id])
        /\ \A k \in 1..(Len(es) - 1) : VersionLess(es[k].version, es[k + 1].version)
        /\ \A k \in 1..Len(es) :
            /\ HasDefault(es[k]) <=> IsPinnedVersion(id, es[k].version)
            /\ es[k].style = "invalid" <=> IsPinnedVersion(id, es[k].version)
            /\ es[k].style \in {"invalid", "hash"}
        /\ Cardinality({k \in 1..Len(es) : HasDefault(es[k])}) <= 1

\* the entries of the pinned version, when it has metadata and no
\* last-used marker
PinnedPlainEntries(s) ==
    {k \in 1..Len(s.versions) :
        /\ IsPinnedVersion(s.id, s.versions[k].version)
        /\ meta[s.id][s.versions[k].version].kind = "Meta"
        /\ used[s.id][s.versions[k].version].kind = "NoMarker"}

\* C8, as amended: in a listing with versions shown, an entry carries
\* "default version" and the pinned colour exactly when the tool's pinned
\* spec in the config is that version as an unresolved spec, so at most one
\* entry of a tool does and no other carries the annotation; the entry of
\* the pinned version, installed at T with no last-used marker, reads
\* "installed <date(T)>, default version" when T has a date, and "default
\* version" alone when T has none (8210266876800000 ms, the first
\* millisecond of the year 262143).
C8_DefaultVersionEntry ==
    \A i \in PrintedSections :
        LET s == listing.sections[i]
        IN  /\ s.id = lcall.tools[i].id
            /\ EntriesOfSection(s)
            /\ \A k \in PinnedPlainEntries(s) :
                LET e == s.versions[k]
                    t == meta[s.id][e.version].installed_at
                IN  /\ t \in {T0, T1} =>
                        e.comments = <<[text |-> "installed", date |-> DateOf(t)],
                                       [text |-> "default version"]>>
                    /\ t = TBig =>
                        e.comments = <<[text |-> "default version"]>>

\* C8 witness: 20.1.0 is pinned and installed with metadata and no marker
\* beside another installed version with metadata and no marker; its entry
\* reads "installed 01/02/70, default version", the other "installed
\* 01/01/70".
C8_Witness ==
    /\ listing.mode = "text"
    /\ PinnedSpec("node") = UVersion(<<20, 1, 0>>)
    /\ \E i \in PrintedSections :
        /\ listing.sections[i].id = "node"
        /\ Len(listing.sections[i].versions) = 2
        /\ listing.sections[i].versions[2] =
                [version |-> <<20, 1, 0>>, style |-> "invalid",
                 comments |-> <<[text |-> "installed", date |-> <<1, 2, 70>>],
                                [text |-> "default version"]>>]
        /\ listing.sections[i].versions[1].style = "hash"
        /\ listing.sections[i].versions[1].comments
                = <<[text |-> "installed", date |-> <<1, 1, 70>>]>>
    /\ used["node"][<<20, 1, 0>>] = NoMarker

\* C8 as stated: an entry carries "default version" and the pinned colour
\* exactly when the tool's pinned spec is that version, at most one entry
\* of a tool does, and the entry of the pinned version, installed at T with
\* no last-used marker, reads "installed <date(T)>, default version"
\* whatever T is.
C8_InstalledDateAlwaysShown ==
    \A i \in PrintedSections :
        LET s == listing.sections[i]
        IN  /\ EntriesOfSection(s)
            /\ \A k \in PinnedPlainEntries(s) :
                LET e == s.versions[k]
                    t == meta[s.id][e.version].installed_at
                IN  /\ Len(e.comments) = 2
                    /\ e.comments[1].text = "installed"
                    /\ t \in {T0, T1} => e.comments[1].date = DateOf(t)
                    /\ e.comments[2] = [text |-> "default version"]

====
